---- MODULE Spec2Model ----
(***************************************************************************)
(* dqueue.DistributedQueue: exclusive, time-bounded locks of project ids   *)
(* per user, kept in Redis.                                                *)
(*                                                                         *)
(* Store state: one string key per locked project id (value = user id,     *)
(* with a TTL) and one sorted set per user (member = project id, score =   *)
(* lock timestamp).  Every Redis command, and every MULTI/EXEC block, is   *)
(* one atomic step; a method of DistributedQueue is a sequence of such     *)
(* steps run by one caller, interleaved with the steps of other callers,   *)
(* with the passage of time and with the store expiring keys.              *)
(*                                                                         *)
(* Time is counted in whole seconds (int(time.time())).  A key given the   *)
(* TTL at second t expires at some instant of second t + lock_ttl: it may  *)
(* be seen alive or gone in that second and is gone in every later one.    *)
(***************************************************************************)
EXTENDS Integers, FiniteSets, TLC

\* ------------------------------------------------------------- bounds
LockTtl == 1        \* ttl_seconds of the constructor, in seconds
MaxDrift == 2       \* seconds the clock advances one by one
MaxTime == 62       \* last second of the clock
MaxCalls == 3       \* method calls started in one behaviour

\* ---------------------------------------------------- program constants
SweepGrace == 60

Users == {1, 2}
Pids == {1, 2}
NoUser == 0
NoScore == -1

VARIABLES
    clock,      \* time.time(), in whole seconds
    owner,      \* project:project:<pid> string keys: the user id, NoUser when the key is absent
    expiry,     \* the second in which the key of pid expires (0 when absent)
    index,      \* project:user:<uid> sorted sets: pid -> score, NoScore when not a member
    temp,       \* project:temp:<now> sorted sets, a function from <now> to pid -> score
    call,       \* per caller: the method it is running and the locals of that method
    last,       \* the method call that returned last: arguments and return value
    lease,      \* history: per pid, who won the last SETNX, when, and what happened since
    calls       \* number of method calls started

vars == <<clock, owner, expiry, index, temp, call, last, lease, calls>>

Idle == [op |-> "idle", pc |-> "idle", pids |-> {}, now |-> 0, pid |-> 0,
         val |-> NoUser, dirty |-> FALSE, res |-> {}, keys |-> {}, n |-> 0]

NoCall == [op |-> "none", user |-> NoUser, pids |-> {}, ret |-> {}, fresh |-> FALSE]

NoLease == [by |-> NoUser, at |-> 0, reclaimed |-> FALSE]

EmptyZset == [p \in Pids |-> NoScore]

\* --------------------------------------------------------- Redis commands

\* ZRANGEBYSCORE name min max: the members whose score lies in [min, max]
ZRangeByScore(z, min, max) ==
    {p \in Pids : z[p] # NoScore /\ min <= z[p] /\ z[p] <= max}

\* ZREMRANGEBYSCORE name -inf max
ZRemRangeByScore(z, max) ==
    [p \in Pids |-> IF z[p] # NoScore /\ z[p] <= max THEN NoScore ELSE z[p]]

\* AGGREGATE MIN
Min2(a, b) == IF a <= b THEN a ELSE b

\* AGGREGATE MAX of two scores
Max2(a, b) == IF a >= b THEN a ELSE b

RECURSIVE MaxScore(_, _)
MaxScore(keys, p) ==
    IF keys = {} THEN NoScore
    ELSE LET k == CHOOSE k \in keys : TRUE
         IN  Max2(index[k][p], MaxScore(keys \ {k}, p))

\* ZUNIONSTORE dest keys AGGREGATE MAX: the zset stored at dest
ZUnionMax(keys) == [p \in Pids |-> MaxScore(keys, p)]

\* KEYS project:user:* : a sorted set exists while it has a member
UserKeys == {u \in Users : \E p \in Pids : index[u][p] # NoScore}

\* DEL dest
TempDelete(dest) == [k \in DOMAIN temp \ {dest} |-> temp[k]]

\* the temp keys after dest is set to z (an empty result stores no key)
TempStore(dest, z) ==
    IF z = EmptyZset
    THEN TempDelete(dest)
    ELSE [k \in DOMAIN temp \cup {dest} |-> IF k = dest THEN z ELSE temp[k]]

TempRead(dest) == IF dest \in DOMAIN temp THEN temp[dest] ELSE EmptyZset

\* a horizon one second too long
BirthLate(now) == now - LockTtl - 1

\* lines 76 and 97: birth = now - self.lock_ttl
Birth(now) == now - LockTtl

\* a sweep without the grace period
SweepMaxNoGrace(now) == Birth(now)

\* line 106: max=(birth - 60)
SweepMax(now) == Birth(now) - SweepGrace

\* a range that leaves out the score `now`
UnexpiredBeforeNow(z, now) == ZRangeByScore(z, Birth(now), now - 1)

\* lines 83 and 101: zrangebyscore(name=..., min=birth, max=now)
Unexpired(z, now) == ZRangeByScore(z, Birth(now), now)

\* the caller is in the loop of remove_pids, called directly or by remove_all
Removing(c) == c.op \in {"rm", "remove_all"}

\* a transaction that is told of no write
TouchNone(c, S) == c

\* WATCH: a write to the key of a pid in S invalidates the transactions watching it
Touch(c, S) ==
    IF Removing(c) /\ c.pc = "exec" /\ c.pid \in S
    THEN [c EXCEPT !.dirty = TRUE] ELSE c

Init ==
    /\ clock = 0
    /\ owner = [p \in Pids |-> NoUser]
    /\ expiry = [p \in Pids |-> 0]
    /\ index = [u \in Users |-> EmptyZset]
    /\ temp = [k \in {} |-> EmptyZset]
    /\ call = [u \in Users |-> Idle]
    /\ last = NoCall
    /\ lease = [p \in Pids |-> NoLease]
    /\ calls = 0

\* a caller starts a method
Begin(u) ==
    /\ call[u].op = "idle"
    /\ calls < MaxCalls
    /\ calls' = calls + 1

\* a method returns ret; fresh records, for lock_pids, that the call found every
\* pid free and the caller's own sorted set without an unexpired member
Return(op, u, pids, ret, fresh) ==
    last' = [op |-> op, user |-> u, pids |-> pids, ret |-> ret, fresh |-> fresh]

\* ------------------------------------------------------------- lock_pids

\* line 125: the value `if pipe.setnx(pid_key, user_id)` tests.  The command is
\* buffered in the pipeline, whose methods return the pipeline object itself:
\* the test is true whatever SETNX will answer when the pipeline is executed.
SetnxReturn(u, p) == TRUE

\* a plain SET, which replaces the value of an existing key
SetAlways(u, cur) == u

\* SETNX as the store executes it: the key is created with the caller's id
\* when absent and keeps its value otherwise
Setnx(u, cur) == IF cur = NoUser THEN u ELSE cur

\* lock_pids: `now` is read and the buffered commands run as one MULTI/EXEC
\* at pipe.execute()
LockPids(u, X) ==
    LET queued == {p \in X : SetnxReturn(u, p)}
        won == {p \in X : owner[p] = NoUser}
    IN  /\ Begin(u)
        /\ owner' = [p \in Pids |-> IF p \in X THEN Setnx(u, owner[p]) ELSE owner[p]]
        /\ expiry' = [p \in Pids |-> IF p \in queued THEN clock + LockTtl ELSE expiry[p]]
        /\ index' = [index EXCEPT ![u] =
                        [p \in Pids |-> IF p \in queued THEN clock ELSE @[p]]]
        /\ call' = [v \in Users |-> Touch(call[v], won \cup queued)]
        /\ Return("lock", u, X, queued, won = X /\ Unexpired(index[u], clock) = {})
        /\ lease' = [p \in Pids |->
                        IF p \in won THEN [by |-> u, at |-> clock, reclaimed |-> FALSE]
                        ELSE IF p \in X /\ lease[p].by # NoUser
                             THEN [lease[p] EXCEPT !.reclaimed = TRUE]
                        ELSE lease[p]]
        /\ UNCHANGED <<clock, temp>>

\* ------------------------------------------------- remove_pid, remove_pids

\* redis.transaction: WATCH pid_key, then rm_transaction line 146: GET pid_key
WatchGet(c, p) ==
    [c EXCEPT !.pc = "exec", !.pid = p, !.val = owner[p], !.dirty = FALSE]

\* remove_pids(u, X), lines 160-163, up to the GET of the first pid;
\* remove_pid(u, p) is remove_pids(u, {p})
RemoveBegin(u, X, p) ==
    /\ Begin(u)
    /\ p \in X
    /\ call' = [call EXCEPT ![u] = WatchGet([Idle EXCEPT !.op = "rm", !.pids = X], p)]
    /\ UNCHANGED <<clock, owner, expiry, index, temp, last, lease>>

\* the GET of the next pid of the loop, or of the same pid when the
\* transaction is run again
RemoveRead(u, p) ==
    LET c == call[u]
    IN  /\ Removing(c) /\ c.pc = "watch"
        /\ p \in c.pids
        /\ c.pid \in {0, p}
        /\ call' = [call EXCEPT ![u] = WatchGet(c, p)]
        /\ UNCHANGED <<clock, owner, expiry, index, temp, last, lease, calls>>

\* an owner test that only asks whether the key exists
OwnerMatchesAny(val, u) == val # NoUser

\* line 148: the owner test of rm_transaction
OwnerMatches(val, u) == val # NoUser /\ val = u

\* a false `result`: ZREM is never queued
DeleteReturnFalse(u, p) == FALSE

\* lines 150-151: the value `if result` tests; pipe.delete is buffered after
\* pipe.multi() and returns the pipeline object
DeleteReturn(u, p) == TRUE

\* a transaction that watches no key
ExecNeverRefused(c) == FALSE

\* line 154: redis.transaction(rm_transaction, pid_key) watches pid_key, and
\* EXEC is refused (WatchError) when the watched key was written since WATCH
ExecRefused(c) == c.dirty

\* lines 163-168: the loop of remove_pids after remove_pid returned ok for done
RemoveNext(u, c, done, ok) ==
    LET res == IF ok THEN c.res \cup {done} ELSE c.res
        rest == c.pids \ {done}
        others(v) == IF ok THEN Touch(call[v], {done}) ELSE call[v]
    IN  IF rest = {}
        THEN /\ call' = [v \in Users |-> IF v = u THEN Idle ELSE others(v)]
             /\ Return(c.op, u, c.res \cup c.pids, res, FALSE)
        ELSE /\ call' = [v \in Users |->
                            IF v = u THEN [c EXCEPT !.pc = "watch", !.pids = rest, !.res = res,
                                                    !.pid = 0, !.val = NoUser, !.dirty = FALSE]
                            ELSE others(v)]
             /\ last' = last

\* lines 148-154: pipe.execute() of the transaction.  With no command queued it
\* returns [], which is false; with DEL and ZREM queued it sends MULTI/EXEC and
\* returns the list of the replies, which is true.  When EXEC is refused,
\* redis.transaction runs rm_transaction again.
RemoveExec(u) ==
    LET c == call[u]
    IN  /\ Removing(c) /\ c.pc = "exec"
        /\ IF OwnerMatches(c.val, u)
           THEN IF ExecRefused(c)
                THEN /\ call' = [call EXCEPT ![u] = [c EXCEPT !.pc = "watch",
                                                     !.dirty = FALSE]]
                     /\ UNCHANGED <<owner, expiry, index, last, lease>>
                ELSE /\ owner' = [owner EXCEPT ![c.pid] = NoUser]
                     /\ expiry' = [expiry EXCEPT ![c.pid] = 0]
                     /\ index' = [index EXCEPT ![u][c.pid] =
                                     IF DeleteReturn(u, c.pid) THEN NoScore ELSE @]
                     /\ lease' = [lease EXCEPT ![c.pid] = NoLease]
                     /\ RemoveNext(u, c, c.pid, TRUE)
           ELSE /\ RemoveNext(u, c, c.pid, FALSE)
                /\ UNCHANGED <<owner, expiry, index, lease>>
        /\ UNCHANGED <<clock, temp, calls>>

\* ------------------------------------------------------------ retrieve_user

\* lines 96-101: read the clock, then ZRANGEBYSCORE on the user's sorted set
RetrieveUserRange(u) ==
    /\ Begin(u)
    /\ call' = [call EXCEPT ![u] = [Idle EXCEPT !.op = "retrieve_user", !.pc = "rem",
                                    !.now = clock, !.res = Unexpired(index[u], clock)]]
    /\ UNCHANGED <<clock, owner, expiry, index, temp, last, lease>>

\* lines 106-108: ZREMRANGEBYSCORE, return
RetrieveUserRem(u) ==
    LET c == call[u]
    IN  /\ c.op = "retrieve_user" /\ c.pc = "rem"
        /\ index' = [index EXCEPT ![u] = ZRemRangeByScore(@, SweepMax(c.now))]
        /\ call' = [call EXCEPT ![u] = Idle]
        /\ Return("retrieve_user", u, {}, c.res, FALSE)
        /\ UNCHANGED <<clock, owner, expiry, temp, lease, calls>>

\* --------------------------------------------------------------- remove_all

\* the call starts with every other caller idle and no key in the second of
\* its expiry
Quiet(u) ==
    /\ \A v \in Users \ {u} : call[v].op = "idle"
    /\ \A p \in Pids : owner[p] # NoUser => expiry[p] > clock

\* remove_all line 174: retrieve_user(user_id), lines 96-101.  n numbers the
\* call when it starts quiet.
RemoveAllRange(u) ==
    /\ Begin(u)
    /\ call' = [call EXCEPT ![u] = [Idle EXCEPT !.op = "remove_all", !.pc = "rem",
                                    !.now = clock, !.res = Unexpired(index[u], clock),
                                    !.n = IF Quiet(u) THEN calls + 1 ELSE 0]]
    /\ UNCHANGED <<clock, owner, expiry, index, temp, last, lease>>

\* retrieve_user lines 106-108, then remove_all line 175: remove_pids on the
\* returned set, which returns at once when the set is empty
RemoveAllRem(u) ==
    LET c == call[u]
    IN  /\ c.op = "remove_all" /\ c.pc = "rem"
        /\ index' = [index EXCEPT ![u] = ZRemRangeByScore(@, SweepMax(c.now))]
        /\ IF c.res = {}
           THEN /\ call' = [call EXCEPT ![u] = Idle]
                /\ Return("remove_all", u, {}, {}, FALSE)
           ELSE /\ call' = [call EXCEPT ![u] = [c EXCEPT !.pc = "watch",
                                                !.pids = c.res, !.res = {}]]
                /\ last' = last
        /\ UNCHANGED <<clock, owner, expiry, temp, lease, calls>>

\* ------------------------------------------------------------- retrieve_all

\* no other caller is inside a call
Alone(u) == \A v \in Users \ {u} : call[v].op = "idle"

\* lines 69-79 and 90: KEYS, read the clock; return set() when there is no key.
\* n numbers the call when it starts alone.
RetrieveAllKeys(u) ==
    /\ Begin(u)
    /\ IF UserKeys = {}
       THEN /\ call' = call
            /\ Return("retrieve_all", u, {}, {}, FALSE)
       ELSE /\ call' = [call EXCEPT ![u] = [Idle EXCEPT !.op = "retrieve_all",
                                   !.pc = "union", !.now = clock, !.keys = UserKeys,
                                   !.n = IF Alone(u) THEN calls + 1 ELSE 0]]
            /\ last' = last
    /\ UNCHANGED <<clock, owner, expiry, index, temp, lease>>

\* line 80: ZUNIONSTORE dest keys AGGREGATE MAX
RetrieveAllUnion(u) ==
    LET c == call[u]
    IN  /\ c.op = "retrieve_all" /\ c.pc = "union"
        /\ temp' = TempStore(c.now, ZUnionMax(c.keys))
        /\ call' = [call EXCEPT ![u] = [c EXCEPT !.pc = "range"]]
        /\ UNCHANGED <<clock, owner, expiry, index, last, lease, calls>>

\* line 83: ZRANGEBYSCORE dest birth now
RetrieveAllRange(u) ==
    LET c == call[u]
    IN  /\ c.op = "retrieve_all" /\ c.pc = "range"
        /\ call' = [call EXCEPT ![u] = [c EXCEPT !.pc = "delete",
                                        !.res = Unexpired(TempRead(c.now), c.now)]]
        /\ UNCHANGED <<clock, owner, expiry, index, temp, last, lease, calls>>

\* lines 86-88: DEL dest, return
RetrieveAllDelete(u) ==
    LET c == call[u]
    IN  /\ c.op = "retrieve_all" /\ c.pc = "delete"
        /\ temp' = TempDelete(c.now)
        /\ call' = [call EXCEPT ![u] = Idle]
        /\ Return("retrieve_all", u, {}, c.res, FALSE)
        /\ UNCHANGED <<clock, owner, expiry, index, lease, calls>>

\* ----------------------------------------------------------- time, expiry

\* the store drops a key whose TTL ran out; whether a transaction watching the
\* key sees that as a write depends on the store
Expire(p, seen) ==
    /\ owner[p] # NoUser
    /\ expiry[p] <= clock
    /\ owner' = [owner EXCEPT ![p] = NoUser]
    /\ expiry' = [expiry EXCEPT ![p] = 0]
    /\ call' = [v \in Users |-> IF seen THEN Touch(call[v], {p}) ELSE call[v]]
    /\ UNCHANGED <<clock, index, temp, last, lease, calls>>

\* d seconds pass; no key outlives the second in which it expires
Tick(d) ==
    /\ clock + d <= MaxTime
    /\ d = 1 => (clock % SweepGrace) < MaxDrift
    /\ \A p \in Pids : owner[p] # NoUser => expiry[p] >= clock + d
    /\ clock' = clock + d
    /\ UNCHANGED <<owner, expiry, index, temp, call, last, lease, calls>>

Next ==
    \/ \E u \in Users, X \in (SUBSET Pids) \ {{}} : LockPids(u, X)
    \/ \E u \in Users, X \in (SUBSET Pids) \ {{}}, p \in Pids : RemoveBegin(u, X, p)
    \/ \E u \in Users, p \in Pids : RemoveRead(u, p)
    \/ \E u \in Users : RemoveExec(u)
    \/ \E u \in Users : RetrieveUserRange(u)
    \/ \E u \in Users : RetrieveUserRem(u)
    \/ \E u \in Users : RetrieveAllKeys(u)
    \/ \E u \in Users : RetrieveAllUnion(u)
    \/ \E u \in Users : RetrieveAllRange(u)
    \/ \E u \in Users : RetrieveAllDelete(u)
    \/ \E p \in Pids, seen \in BOOLEAN : Expire(p, seen)
    \/ Tick(1)

Spec == Init /\ [][Next]_vars

\* the same callers, who also call remove_all
NextAll ==
    \/ Next
    \/ \E u \in Users : RemoveAllRange(u)
    \/ \E u \in Users : RemoveAllRem(u)

SpecAll == Init /\ [][NextAll]_vars

\* the same callers over a time long enough for retrieve_user to sweep
NextLong == Next \/ Tick(SweepGrace)

SpecLong == Init /\ [][NextLong]_vars

\* ------------------------------------------------------------------ steps

\* the step is a lock_pids call (the only step that starts a call, returns
\* "lock" and leaves every caller where it was)
IsLock ==
    /\ calls' = calls + 1
    /\ last'.op = "lock"
    /\ \A v \in Users : call'[v].op = call[v].op

\* the step is pipe.execute() of caller u's remove transaction
IsRemoveExec(u) ==
    /\ call[u].op = "rm" /\ call[u].pc = "exec"
    /\ call'[u].pc # "exec"

\* what retrieve_user(u) returns when it reads the store in this state
QueryUser(u) == Unexpired(index[u], clock)

\* what retrieve_all() returns when it runs alone from this state
QueryAll == IF UserKeys = {} THEN {} ELSE Unexpired(ZUnionMax(UserKeys), clock)

\* the sets retrieve_user returns for the users other than u
OthersQuery(u) == UNION {QueryUser(v) : v \in Users \ {u}}

\* the step is the return of a remove_all call of u that ran alone: it started
\* quiet, no call started since and the clock did not move
IsRemoveAllReturn(u) ==
    /\ call[u].op = "remove_all" /\ call'[u].op = "idle"
    /\ call[u].n = calls /\ call[u].now = clock

\* ----------------------------------------------------------------- claims

\* C1 (as claimed): lock_pids returns exactly the pids of its argument whose
\* SETNX created the key, so no pid that already had a key is returned.
C1_ReturnsOnlyCreated ==
    [][IsLock => last'.ret = {p \in last'.pids : owner[p] = NoUser}]_vars

\* C2 (as claimed): at every instant the sets retrieve_user returns for two
\* distinct users are disjoint.
C2_MutualExclusion ==
    \A u1 \in Users, u2 \in Users : u1 # u2 => QueryUser(u1) \cap QueryUser(u2) = {}

\* C3 (as claimed): of two lock_pids calls by distinct users on the same free
\* pid x, run one right after the other, exactly one returns x (the first to
\* execute), and its user is the owner of x's key.
C3_ExactlyOneWins ==
    [][\A x \in Pids :
          ( /\ last.op = "lock" /\ x \in last.pids
            /\ lease[x].by = last.user /\ ~lease[x].reclaimed
            /\ owner[x] = last.user
            /\ IsLock /\ last'.user # last.user /\ x \in last'.pids )
          => (x \in last.ret /\ x \notin last'.ret /\ owner'[x] = last.user)]_vars

\* C4 (as claimed): lock_pids on a pid whose key exists leaves the key (owner
\* and expiry) and the pid's entry in every user's sorted set unchanged.
C4_ReclaimIsNoop ==
    [][IsLock =>
          \A x \in last'.pids :
              owner[x] # NoUser =>
                  /\ owner'[x] = owner[x]
                  /\ expiry'[x] = expiry[x]
                  /\ \A v \in Users : index'[v][x] = index[v][x]]_vars

\* u locked x at second lease[x].at, and x was neither removed nor named in a
\* lock_pids call since
HeldSince(u, x) ==
    lease[x].by = u /\ ~lease[x].reclaimed

\* the queries at second `now` of a lock taken at second lease[x].at:
\* the result of every retrieve_user / retrieve_all that read the clock at
\* `now`, and what either returns when it reads the store in this state
AbsentFromQueries(u, x) ==
    /\ x \notin QueryUser(u)
    /\ x \notin QueryAll

AbsentFromRunning(x, from) ==
    \A w \in Users :
        (call[w].op \in {"retrieve_user", "retrieve_all"} /\ call[w].now >= from)
            => x \notin call[w].res

\* C5 (as claimed): x locked by u at t0 and neither removed nor locked again
\* is absent from retrieve_user(u) and retrieve_all() at every second
\* t >= t0 + lock_ttl, t = t0 + lock_ttl included.
C5_AbsentAtTtl ==
    \A u \in Users, x \in Pids :
        HeldSince(u, x) =>
            /\ clock >= lease[x].at + LockTtl => AbsentFromQueries(u, x)
            /\ AbsentFromRunning(x, lease[x].at + LockTtl)

\* C5 (amended): the same at every second t > t0 + lock_ttl.
C5_AbsentAfterTtl ==
    \A u \in Users, x \in Pids :
        HeldSince(u, x) =>
            /\ clock > lease[x].at + LockTtl => AbsentFromQueries(u, x)
            /\ AbsentFromRunning(x, lease[x].at + LockTtl + 1)

\* C5 witness: more than lock_ttl seconds after u locked x, retrieve_user(u)
\* returned without x, whose entry is still in u's sorted set.
C5_Witness ==
    \E u \in Users, x \in Pids :
        /\ HeldSince(u, x)
        /\ clock > lease[x].at + LockTtl
        /\ index[u][x] = lease[x].at
        /\ last.op = "retrieve_user" /\ last.user = u /\ x \notin last.ret

\* C6 (as claimed): a key created at t0 and never removed is gone in every
\* second after t0 + lock_ttl, whatever lock_pids calls named it meanwhile.
C6_LeaseIsBounded ==
    \A x \in Pids :
        (lease[x].by # NoUser /\ clock > lease[x].at + LockTtl) => owner[x] = NoUser

\* C7: a remove transaction whose GET found no key, or the key of another
\* user, changes no key and no sorted set when it executes, and the pid is
\* not in what the call returns.
C7_NonOwnerRemoveIsNoop ==
    [][\A u \in Users :
          (IsRemoveExec(u) /\ call[u].val # u) =>
              /\ owner' = owner /\ expiry' = expiry /\ index' = index /\ temp' = temp
              /\ call'[u].op = "rm" => call[u].pid \notin call'[u].res
              /\ call'[u].op = "idle" =>
                     (last'.op = "rm" /\ last'.user = u /\ call[u].pid \notin last'.ret)]_vars

\* C7 witness: remove_pid(u2, x) returned false and x is still u1's.
C7_Witness ==
    \E u1 \in Users, u2 \in Users, x \in Pids :
        /\ u1 # u2
        /\ last.op = "rm" /\ last.user = u2 /\ last.pids = {x} /\ last.ret = {}
        /\ owner[x] = u1 /\ x \in QueryUser(u1)

\* remove_pid(u, x) returned true and no call returned since
JustRemoved(u, x) ==
    last.op = "rm" /\ last.user = u /\ last.pids = {x} /\ last.ret = {x}

\* C8: right after remove_pid(u, x) returned true, x has no key and is not in
\* retrieve_user(u), and the next lock_pids call naming x, by any user,
\* returns x and makes that user the owner.
C8_RemovedIsFree ==
    [][\A u \in Users, x \in Pids :
          /\ JustRemoved(u, x)' => (owner'[x] = NoUser /\ x \notin QueryUser(u)')
          /\ (JustRemoved(u, x) /\ IsLock /\ x \in last'.pids) =>
                 (x \in last'.ret /\ owner'[x] = last'.user)]_vars

\* C8 witness: remove_pid(u, x) just returned true, x is free, and a caller
\* can still lock it.
C8_Witness ==
    \E u \in Users, x \in Pids :
        /\ JustRemoved(u, x)
        /\ owner[x] = NoUser /\ index[u][x] = NoScore
        /\ calls < MaxCalls

NoExpiryElapsed(now) ==
    \A x \in last.pids : now < lease[x].at + LockTtl

\* C10: lock_pids(u, X) by a user whose retrieve_user is empty, on free pids,
\* returns X; the caller's next call, when no other call ran meanwhile and
\* less than lock_ttl seconds passed, returns exactly X if it is
\* retrieve_user(u) and a superset of X if it is retrieve_all().
C10_LockThenQuery ==
    [][/\ (IsLock /\ last'.fresh) => last'.ret = last'.pids
       /\ \A u \in Users :
            ( /\ last.op = "lock" /\ last.fresh /\ last.user = u
              /\ NoExpiryElapsed(call'[u].now) ) =>
                /\ (call[u].op = "idle" /\ call'[u].op = "retrieve_user")
                        => call'[u].res = last.pids
                /\ ( /\ call[u].op = "retrieve_all" /\ call[u].pc = "range"
                     /\ call'[u].pc = "delete"
                     /\ \A v \in Users \ {u} : call[v].op = "idle" )
                        => last.pids \subseteq call'[u].res]_vars

\* C10 witness: retrieve_all is about to return, with X in its result, right
\* after lock_pids(u, X) found X free.
C10_Witness ==
    \E w \in Users :
        /\ last.op = "lock" /\ last.fresh /\ last.pids = Pids /\ last.user = w
        /\ call[w].op = "retrieve_all" /\ call[w].pc = "delete"
        /\ call[w].res = Pids
        /\ NoExpiryElapsed(call[w].now)

\* C11 (as claimed): remove_all(u), run alone and without expiry, returns the
\* set retrieve_user(u) gave it; afterwards retrieve_user(u) is empty and
\* retrieve_all() is the union of the other users' retrieve_user sets.
C11_RemoveAllEmpties ==
    [][\A u \in Users :
          IsRemoveAllReturn(u) =>
              /\ last'.op = "remove_all" /\ last'.user = u
              /\ last'.ret = last'.pids
              /\ QueryUser(u)' = {}
              /\ QueryAll' = OthersQuery(u)']_vars

\* C12 (as claimed): an entry for x is written to u's sorted set, or given a
\* new score, only by a step whose SETNX created x's key for u; so every entry
\* of u's set is of a key u owns or owned when the score was written.
C12_IndexOnlyForOwner ==
    [][\A u \in Users, x \in Pids :
          (index'[u][x] # index[u][x] /\ index'[u][x] # NoScore) =>
              (owner[x] = NoUser /\ owner'[x] = u)]_vars

\* C13: whenever the EXEC of u's remove transaction deletes the key of a pid,
\* the key is u's, and it was not written since the GET that found u in it.
C13_DeletesOnlyOwnKey ==
    [][\A u \in Users :
          ( /\ IsRemoveExec(u)
            /\ owner[call[u].pid] # NoUser
            /\ owner'[call[u].pid] = NoUser ) =>
              /\ owner[call[u].pid] = u
              /\ call[u].val = u
              /\ ~call[u].dirty]_vars

\* C13 witness: u read its own id from x's key, the key expired and another
\* user locked x; u's transaction, not yet executed, is marked as overtaken.
C13_Witness ==
    \E u \in Users, x \in Pids :
        /\ call[u].op = "rm" /\ call[u].pc = "exec" /\ call[u].pid = x
        /\ call[u].val = u /\ call[u].dirty
        /\ owner[x] \notin {u, NoUser}

\* C14: a lock_pids call gives every pid of its argument that had no key a key
\* holding the caller's id with the full TTL, however many of the other pids
\* had a key, and leaves the id in every key that did exist as it was.
C14_OwnerIsStable ==
    [][IsLock =>
          \A x \in Pids :
              /\ (x \in last'.pids /\ owner[x] = NoUser) =>
                     (owner'[x] = last'.user /\ expiry'[x] = clock' + LockTtl)
              /\ owner[x] # NoUser => owner'[x] = owner[x]]_vars

\* C14 witness: one lock_pids call named a free pid and a pid held by another
\* user; it holds the first and the other user still holds the second.
C14_Witness ==
    \E x \in Pids, y \in Pids :
        /\ last.op = "lock" /\ last.pids = {x, y} /\ x # y
        /\ owner[x] = last.user /\ lease[x].by = last.user /\ lease[x].at = clock
        /\ owner[y] \notin {last.user, NoUser} /\ lease[y].reclaimed

\* C15: the EXEC of u's remove transaction deletes the pid's key and u's index
\* entry for the pid together or not at all: the step that deletes the key
\* leaves no entry, and the entry goes only in a step that deletes the key.
C15_DeleteAndZremTogether ==
    [][\A u \in Users :
          IsRemoveExec(u) =>
              LET x == call[u].pid
              IN  /\ (owner[x] # NoUser /\ owner'[x] = NoUser) => index'[u][x] = NoScore
                  /\ index'[u][x] # index[u][x] =>
                         (owner[x] = u /\ owner'[x] = NoUser)]_vars

\* C16: a remove call makes a bounded number of attempts on a pid whatever the
\* other callers do: when its transaction is run again, the GET no longer
\* finds the caller's id, so that no further attempt can be asked for.
C16_SecondAttemptIsLast ==
    [][\A u \in Users :
          ( /\ call[u].op = "rm" /\ call[u].pc = "watch" /\ call[u].pid # 0
            /\ call'[u].pc = "exec" ) =>
              call'[u].val # u]_vars

\* what retrieve_user would return to each user at second now, together
UnionOfUsers(now) == UNION {Unexpired(index[v], now) : v \in Users}

\* the step returns from a retrieve_all call of u during which no other call
\* started or ran
IsRetrieveAllReturn(u) ==
    /\ last'.op = "retrieve_all" /\ last'.user = u
    /\ Alone(u)
    /\ \/ call[u].op = "retrieve_all" /\ call'[u].op = "idle" /\ call[u].n = calls
       \/ call[u].op = "idle" /\ call' = call /\ calls' = calls + 1

\* C17: a retrieve_all call that ran alone returns the union of what
\* retrieve_user would return to each user at the second the call read; when
\* no user has a sorted set it returns the empty set and stores no temp key.
C17_AllIsUnionOfUsers ==
    [][\A u \in Users :
          IsRetrieveAllReturn(u) =>
              /\ call[u].op = "retrieve_all" =>
                     last'.ret = UnionOfUsers(call[u].now)
              /\ call[u].op = "idle" =>
                     (UserKeys = {} /\ last'.ret = {} /\ temp' = temp)
              /\ (UserKeys = {} /\ call[u].op = "idle") => UnionOfUsers(clock) = {}]_vars

\* C17 witness: a retrieve_all call that ran alone is about to return, both
\* users have a sorted set, and a pid in its result is not in the caller's.
C17_Witness ==
    \E u \in Users, x \in Pids :
        /\ call[u].op = "retrieve_all" /\ call[u].pc = "delete"
        /\ call[u].n = calls /\ Alone(u)
        /\ UserKeys = Users
        /\ x \in call[u].res /\ index[u][x] = NoScore

\* the step belongs to a retrieve_user or retrieve_all call of u
IsQueryStep(u) ==
    \/ /\ call'[u] # call[u]
       /\ \/ call[u].op \in {"retrieve_user", "retrieve_all"}
          \/ call'[u].op \in {"retrieve_user", "retrieve_all"}
    \/ /\ call' = call /\ calls' = calls + 1
       /\ last'.op = "retrieve_all" /\ last'.user = u

\* a score the sweep of a call that read the clock at now may delete: older
\* than now - lock_ttl - 60, or (when atOrBefore) also exactly that old
Sweepable(score, now, atOrBefore) ==
    \/ score < now - LockTtl - SweepGrace
    \/ atOrBefore /\ score = now - LockTtl - SweepGrace

\* the steps of retrieve_user and retrieve_all change no key of a pid and no
\* sorted set, except that retrieve_user deletes sweepable members of the
\* caller's sorted set; when no retrieve_all call is running no temp key exists
QueriesKeepLeases(atOrBefore) ==
    /\ \A u \in Users :
          IsQueryStep(u) =>
              /\ owner' = owner /\ expiry' = expiry
              /\ \A v \in Users, x \in Pids :
                    index'[v][x] # index[v][x] =>
                        /\ v = u /\ call[u].op = "retrieve_user"
                        /\ index'[v][x] = NoScore
                        /\ Sweepable(index[v][x], call[u].now, atOrBefore)
    /\ (\A u \in Users : call'[u].op # "retrieve_all") => temp' = << >>

\* C18 (as claimed): queries leave keys, other users' sorted sets and unexpired
\* members alone, retrieve_user deletes only members with a score older than
\* now - lock_ttl - 60, and no temp key outlives the retrieve_all calls.
C18_SweepsOnlyOlder ==
    [][QueriesKeepLeases(FALSE)]_vars

\* C18 (amended): the same, with retrieve_user deleting only members with a
\* score of now - lock_ttl - 60 or older.
C18_SweepsOnlyOldOrOlder ==
    [][QueriesKeepLeases(TRUE)]_vars

\* C18 witness: retrieve_user(u) has just returned after deleting from u's
\* sorted set the member x, which had expired without being removed.
C18_Witness ==
    \E u \in Users, x \in Pids :
        /\ last.op = "retrieve_user" /\ last.user = u /\ call[u].op = "idle"
        /\ lease[x].by = u /\ owner[x] = NoUser
        /\ index[u][x] = NoScore
        /\ clock >= lease[x].at + LockTtl + SweepGrace

\* the pids with a member of some sorted set that was written before second
\* now and is unexpired at now
HeldBefore(now) ==
    {x \in Pids : \E v \in Users :
        index[v][x] # NoScore /\ Birth(now) <= index[v][x] /\ index[v][x] < now}

\* C19: whatever other retrieve_all calls do meanwhile, a retrieve_all call
\* returns every pid that had an unexpired member in a sorted set from before
\* the call until its return.
C19_ConcurrentAllComplete ==
    [][\A u \in Users :
          (call[u].op = "retrieve_all" /\ call'[u].op = "idle") =>
              HeldBefore(call[u].now) \subseteq last'.ret]_vars

\* C20: while the key of a pid exists and holds u's id, the pid is in what
\* retrieve_user(u) returns.
C20_OwnerSeesItsPids ==
    \A u \in Users, x \in Pids : owner[x] = u => x \in QueryUser(u)
====
